---------------------------- MODULE Spec2Model ----------------------------
(***************************************************************************)
(* A model of src/tedtalk_bot.py: the TED-talk downloader bot.             *)
(*                                                                         *)
(* Each request is one invocation of TEDTalkBot.handle_message.  A request *)
(* advances by one action per awaited transport call: the action is the    *)
(* completion of that call (normally, or by raising) followed by the       *)
(* synchronous code up to the next await.  The two blocking calls that the *)
(* coroutines make without awaiting (ydl.download, requests.post) are      *)
(* split in a begin and an end action; between them the event-loop thread  *)
(* is held by the calling request.                                         *)
(*                                                                         *)
(* Text is modelled as sequences of one-character strings, so that strip,  *)
(* lower, startswith, endswith and `in` are computed character by          *)
(* character as Python computes them.                                      *)
(***************************************************************************)
EXTENDS Integers, Sequences, FiniteSets, TLC

(***************************************************************************)
(* Bounds of the model.                                                    *)
(***************************************************************************)
NumReq == 2

Requests == 1..NumReq

(***************************************************************************)
(* Python string operations.                                               *)
(***************************************************************************)
UpperChars == <<"A","B","C","D","E","F","G","H","I","J","K","L","M",
                "N","O","P","Q","R","S","T","U","V","W","X","Y","Z">>

LowerChars == <<"a","b","c","d","e","f","g","h","i","j","k","l","m",
                "n","o","p","q","r","s","t","u","v","w","x","y","z">>

LowerChar(c) ==
    IF \E i \in DOMAIN UpperChars : UpperChars[i] = c
    THEN LowerChars[CHOOSE i \in DOMAIN UpperChars : UpperChars[i] = c]
    ELSE c

\* str.lower()
Lower(s) == [i \in 1..Len(s) |-> LowerChar(s[i])]

\* str.startswith(p)
StartsWith(s, p) == Len(s) >= Len(p) /\ SubSeq(s, 1, Len(p)) = p

\* str.endswith(p)
EndsWith(s, p) == Len(s) >= Len(p) /\ SubSeq(s, Len(s) - Len(p) + 1, Len(s)) = p

\* p in s
Contains(s, p) ==
    \E i \in 1..(Len(s) - Len(p) + 1) : SubSeq(s, i, i + Len(p) - 1) = p

Whitespace == {" ", "\n", "\t"}

\* str.strip()
Strip(s) ==
    LET keep == {i \in 1..Len(s) : s[i] \notin Whitespace}
    IN  IF keep = {} THEN <<>>
        ELSE LET lo == CHOOSE i \in keep : \A j \in keep : i <= j
                 hi == CHOOSE i \in keep : \A j \in keep : j <= i
             IN  SubSeq(s, lo, hi)

(***************************************************************************)
(* Program constants.                                                      *)
(***************************************************************************)
TELEGRAM_FILE_LIMIT == 49 * 1024 * 1024

HTTP == <<"h","t","t","p">>

TALKS == <<"/","t","a","l","k","s","/">>

ted_domains == { <<"t","e","d",".","c","o","m">>,
                 <<"w","w","w",".","t","e","d",".","c","o","m">> }

DOT_MP4 == <<".","m","p","4">>

\* TEDTalkBot.is_ted_url
is_ted_url(url) ==
    /\ \E domain \in ted_domains : Contains(Lower(url), domain)
    /\ Contains(Lower(url), TALKS)

\* The gate with `and` for `or` in its early return: one test suffices.
GateAccepts_EitherTest(message_text) ==
    StartsWith(message_text, HTTP) \/ is_ted_url(message_text)

\* The acceptance test of handle_message (the negation of its early return).
GateAccepts(message_text) ==
    StartsWith(message_text, HTTP) /\ is_ted_url(message_text)

(***************************************************************************)
(* User-visible texts and adapter failure reasons (the code's, less emoji). *)
(***************************************************************************)
MSG_GUIDANCE   == "Please send a valid TED Talk URL from ted.com"
MSG_PROCESSING == "Processing your request..."
MSG_UPLOADING  == "Download complete! Uploading video to Telegram..."
MSG_TOO_LARGE  == "Download complete! File is too large for Telegram, generating a download link..."
MSG_LINK       == "Here is your temporary download link"
MSG_GENERIC    == "An unexpected error occurred."
ERR_DOWNLOAD   == "An unexpected error occurred during download."
ERR_LOCATE     == "Failed to locate the final downloaded video file."
ERR_HOST       == "Failed to communicate with the file hosting service."
ERR_LINK       == "File host returned an invalid link."
ERR_UPLOAD     == "An exception occurred during file upload."
NO_MSG         == "(no message)"
MSG_DELETED    == "(deleted)"


(***************************************************************************)
(* Inputs: what the users send and what the collaborators answer.          *)
(***************************************************************************)
\* " https://www.ted.com/talks/a ", "not a url",
\* "https://evil.com/talks/ted.com", "ted.com/talks/a"
MessageTexts ==
    { <<" ","h","t","t","p","s",":","/","/","w","w","w",".","t","e","d",".",
        "c","o","m","/","t","a","l","k","s","/","a"," ">>,
      <<"n","o","t"," ","a"," ","u","r","l">>,
      <<"h","t","t","p","s",":","/","/","e","v","i","l",".","c","o","m","/",
        "t","a","l","k","s","/","t","e","d",".","c","o","m">>,
      <<"t","e","d",".","c","o","m","/","t","a","l","k","s","/","a">> }

\* The metadata extract_info reports (info['title'], info['duration'], in
\* seconds): a ten-minute talk A and a forty-minute talk B.
Talks == { [title |-> <<"A">>, duration |-> 600],
           [title |-> <<"B">>, duration |-> 2400] }

\* Container extensions of the file the engine leaves in the workspace.
Extensions == { <<"m","p","4">>, <<"w","e","b","m">> }

\* Byte sizes of a downloaded file: around the limit.
Sizes == { TELEGRAM_FILE_LIMIT - 1, TELEGRAM_FILE_LIMIT }

\* Response bodies of the upload host: "https://0x0.st/k\n", "httpfoo",
\* "upload error".
Bodies ==
    { <<"h","t","t","p","s",":","/","/","0","x","0",".","s","t","/","k","\n">>,
      <<"h","t","t","p","f","o","o">>,
      <<"u","p","l","o","a","d"," ","e","r","r","o","r">> }

\* What requests.post does: raise a RequestException (connection failure), or
\* return a response with a status and a body.
NoPost == [made |-> FALSE, raised |-> FALSE, status |-> 0, body |-> <<>>]

PostOutcomes ==
    { [made |-> TRUE, raised |-> TRUE, status |-> 0, body |-> <<>>],
      [made |-> TRUE, raised |-> FALSE, status |-> 500, body |-> <<>>] }
    \cup { [made |-> TRUE, raised |-> FALSE, status |-> 200, body |-> b] : b \in Bodies }

(***************************************************************************)
(* Results of the two adapters (the dicts they return).  owner is a ghost  *)
(* field: the request whose download wrote the located file.               *)
(***************************************************************************)
NoResult == [returned |-> FALSE, raised |-> FALSE, success |-> FALSE,
             file_path |-> <<>>, title |-> <<>>, file_size |-> 0, owner |-> 0,
             error |-> ""]

DownloadFailure(reason) ==
    [returned |-> TRUE, raised |-> FALSE, success |-> FALSE, file_path |-> <<>>,
     title |-> <<>>, file_size |-> 0, owner |-> 0, error |-> reason]

DownloadSuccess(f, t) ==
    [returned |-> TRUE, raised |-> FALSE, success |-> TRUE, file_path |-> f.name,
     title |-> t, file_size |-> f.size, owner |-> f.owner, error |-> ""]

\* An exception leaving download_ted_talk, which the try of handle_message
\* catches.
DownloadRaised ==
    [returned |-> FALSE, raised |-> TRUE, success |-> FALSE, file_path |-> <<>>,
     title |-> <<>>, file_size |-> 0, owner |-> 0, error |-> ""]

\* The text of an exception the extraction engine or the file system raises
\* (str(e) and the traceback), as it is written to the log.
ENGINE_EXCEPTION == "Traceback (most recent call last): ... DownloadError"

\* What the engine did for a request (ghost): outcome is one of "none",
\* "probe_raised", "download_raised", "locate_raised", "wrote_mp4",
\* "wrote_other"; exc is the text of the exception raised, logged is what
\* logger.error wrote.
NoEngine == [outcome |-> "none", exc |-> "", logged |-> ""]

\* The except clause of download_ted_talk without the clause: the exception
\* leaves the adapter.
OnEngineException_Propagates(e) == DownloadRaised

\* The except clause of download_ted_talk returning the exception's own text.
OnEngineException_Leaks(e) == DownloadFailure(e)

\* The except clause of download_ted_talk: whatever was raised, log it and
\* return the fixed failure.
OnEngineException(e) == DownloadFailure(ERR_DOWNLOAD)

NoUpload == [returned |-> FALSE, raised |-> FALSE, success |-> FALSE,
             link |-> <<>>, error |-> ""]

UploadFailure(reason) ==
    [returned |-> TRUE, raised |-> FALSE, success |-> FALSE,
     link |-> <<>>, error |-> reason]

UploadSuccess(l) ==
    [returned |-> TRUE, raised |-> FALSE, success |-> TRUE,
     link |-> l, error |-> ""]

\* An exception leaving the adapter, which the try of handle_message catches.
UploadRaised ==
    [returned |-> FALSE, raised |-> TRUE, success |-> FALSE,
     link |-> <<>>, error |-> ""]

NoProbe == [title |-> <<>>, duration |-> 0]

NoCalls == [download_ted_talk |-> 0, ydl_download |-> 0, upload_to_0x0st |-> 0,
            reply_video |-> 0, os_remove |-> 0]

(***************************************************************************)
(* State.                                                                  *)
(***************************************************************************)
VARIABLES
    concurrent_updates, \* whether the Application dispatches updates concurrently
    loop,               \* the request whose coroutine holds the event-loop thread
    workspace,          \* the files in self.temp_dir
    pc,                 \* where each handle_message invocation is
    text,               \* message_text of each request
    guided,             \* guidance replies sent to each request
    progress,           \* text of each request's processing_msg
    probe,              \* what extract_info(download=False) reported
    dl,                 \* download_result
    up,                 \* upload_result
    post,               \* what requests.post did for the request
    calls,              \* how often each request invoked what
    engine,             \* what the extraction engine did for each request
    token,              \* BOT_TOKEN, read from the environment at import
    main                \* where main() is and what it has done

vars == <<concurrent_updates, loop, workspace, pc, text, guided, progress,
          probe, dl, up, post, calls, engine, token, main>>

\* The variables of the invocations of handle_message, but the workspace.
reqvars == <<concurrent_updates, loop, pc, text, guided, progress,
             probe, dl, up, post, calls, engine>>

\* os.getenv("TELEGRAM_TOKEN"): None when the variable is not set, else its
\* value, which may be empty.
NoToken == "(None)"
Tokens == {NoToken, "", "123456:ABC-DEF"}

\* `if not BOT_TOKEN` never taken.
TokenMissing_Never(tok) == FALSE

\* `if not BOT_TOKEN`: None and the empty string are both false.
TokenMissing(tok) == tok \in {NoToken, ""}

\* The handlers main registers.
Handlers == {"start", "help", "handle_message"}

\* main() before its first statement: no bot, so no temp_dir; no handler;
\* nothing logged.  mkdtemp and cleanup count calls, polled says that
\* run_polling was entered, ended how it was left ("return", "exception",
\* "interrupt"), raised whether an exception left main.
MainStart ==
    [pc |-> "start", temp_dir |-> FALSE, mkdtemp |-> 0, handlers |-> {},
     fatal_logged |-> FALSE, polled |-> FALSE, ended |-> "", cleanup |-> 0,
     rmtree_failed |-> FALSE, raised |-> FALSE]

\* main() inside application.run_polling.
MainPolling ==
    [MainStart EXCEPT !.pc = "polling", !.temp_dir = TRUE, !.mkdtemp = 1,
                      !.handlers = Handlers, !.polled = TRUE]

Terminal == {"Done", "Errored", "Rejected", "Escaped"}

Init ==
    /\ concurrent_updates \in BOOLEAN
    /\ loop = 0
    /\ workspace = {}
    /\ pc = [r \in Requests |-> "idle"]
    /\ text = [r \in Requests |-> <<>>]
    /\ guided = [r \in Requests |-> 0]
    /\ progress = [r \in Requests |-> NO_MSG]
    /\ probe = [r \in Requests |-> NoProbe]
    /\ dl = [r \in Requests |-> NoResult]
    /\ up = [r \in Requests |-> NoUpload]
    /\ post = [r \in Requests |-> NoPost]
    /\ calls = [r \in Requests |-> NoCalls]
    /\ engine = [r \in Requests |-> NoEngine]
    /\ token = "123456:ABC-DEF"
    /\ main = MainPolling

\* The same, with the dispatch the built Application has by default: one
\* update at a time.
InitSequential == Init /\ concurrent_updates = FALSE

Count(r, what) == [calls EXCEPT ![r][what] = @ + 1]

FileNamed(name) == {f \in workspace : f.name = name}


(***************************************************************************)
(* The adapters as functions of what their collaborators do.               *)
(***************************************************************************)
\* upload_to_0x0st without the strip() of the response text.
upload_to_0x0st_NoStrip(file_exists, p) ==
    IF ~file_exists THEN UploadFailure(ERR_UPLOAD)
    ELSE IF p.raised THEN UploadFailure(ERR_HOST)
    ELSE IF p.status >= 400 THEN UploadFailure(ERR_HOST)
    ELSE IF StartsWith(p.body, HTTP)
         THEN UploadSuccess(p.body)
         ELSE UploadFailure(ERR_LINK)

\* upload_to_0x0st: file_exists is whether open(file_path, 'rb') succeeds,
\* p is what requests.post then does.
upload_to_0x0st(file_exists, p) ==
    IF ~file_exists THEN UploadFailure(ERR_UPLOAD)
    ELSE IF p.raised THEN UploadFailure(ERR_HOST)
    ELSE IF p.status >= 400 THEN UploadFailure(ERR_HOST)
    ELSE LET download_link == Strip(p.body)
         IN  IF StartsWith(download_link, HTTP)
             THEN UploadSuccess(download_link)
             ELSE UploadFailure(ERR_LINK)

\* The files the scan of os.listdir(self.temp_dir) can stop at: listdir's
\* order is arbitrary, the loop takes the first name ending in '.mp4'.
LocateCandidates(files) == {f \in files : EndsWith(f.name, DOT_MP4)}

\* The workspace after ydl.download wrote the file f.
WriteFile(files, f) == {g \in files : g.name # f.name} \cup {f}

\* handle_message without the test of download_result['success']: the route
\* is chosen by the size alone.
AfterDownload_SizeOnly(result) ==
    IF result.raised THEN "handler"
    ELSE IF result.file_size < TELEGRAM_FILE_LIMIT THEN "edit_uploading"
    ELSE "edit_too_large"

\* The routing with the size comparison turned around.
AfterDownload_Flipped(result) ==
    IF result.raised THEN "handler"
    ELSE IF ~result.success THEN "edit_dl_error"
    ELSE IF result.file_size > TELEGRAM_FILE_LIMIT THEN "edit_uploading"
    ELSE "edit_too_large"

\* The await the handler reaches after download_ted_talk returned result.
AfterDownload(result) ==
    IF result.raised THEN "handler"
    ELSE IF ~result.success THEN "edit_dl_error"
    ELSE IF result.file_size < TELEGRAM_FILE_LIMIT THEN "edit_uploading"
    ELSE "edit_too_large"

(***************************************************************************)
(* handle_message, one action per await.                                   *)
(***************************************************************************)
\* The Application dispatches an update to handle_message: strip the text,
\* evaluate the gate, issue the first reply.
Receive(r) ==
    /\ main.pc = "polling"
    /\ pc[r] = "idle"
    /\ loop = 0
    /\ concurrent_updates \/ \A q \in Requests : pc[q] \in Terminal \cup {"idle"}
    /\ \E raw \in MessageTexts :
          LET message_text == Strip(raw)
          IN  /\ text' = [text EXCEPT ![r] = message_text]
              /\ pc' = [pc EXCEPT ![r] = IF GateAccepts(message_text)
                                         THEN "reply_processing"
                                         ELSE "reply_guidance"]
    /\ UNCHANGED <<token, main, engine, concurrent_updates, loop, workspace,
                   guided, progress,
                   probe, dl, up, post, calls>>

\* reply_text(guidance) completes; the handler returns.
ReplyGuidance(r) ==
    /\ main.pc = "polling"
    /\ pc[r] = "reply_guidance"
    /\ loop = 0
    /\ \E ok \in BOOLEAN :
          IF ok
          THEN /\ guided' = [guided EXCEPT ![r] = @ + 1]
               /\ pc' = [pc EXCEPT ![r] = "Rejected"]
          ELSE /\ pc' = [pc EXCEPT ![r] = "Escaped"]
               /\ UNCHANGED guided
    /\ UNCHANGED <<token, main, engine, concurrent_updates, loop, workspace,
                   text, progress,
                   probe, dl, up, post, calls>>

\* reply_text("Processing...") completes: outside the try, so a raise leaves
\* the handler.  Otherwise download_ted_talk is entered, synchronously.
ReplyProcessing(r) ==
    /\ main.pc = "polling"
    /\ pc[r] = "reply_processing"
    /\ loop = 0
    /\ \E ok \in BOOLEAN :
          IF ok
          THEN /\ progress' = [progress EXCEPT ![r] = MSG_PROCESSING]
               /\ calls' = Count(r, "download_ted_talk")
               /\ loop' = r
               /\ pc' = [pc EXCEPT ![r] = "probing"]
          ELSE /\ pc' = [pc EXCEPT ![r] = "Escaped"]
               /\ UNCHANGED <<progress, calls, loop>>
    /\ UNCHANGED <<token, main, engine, concurrent_updates, workspace, text,
                   guided, probe, dl, up, post>>

\* ydl.extract_info(url, download=False) raises: download_ted_talk returns
\* its failure.
ProbeRaises(r) ==
    /\ main.pc = "polling"
    /\ pc[r] = "probing"
    /\ loop = r
    /\ engine' = [engine EXCEPT ![r] = [outcome |-> "probe_raised",
                                        exc |-> ENGINE_EXCEPTION,
                                        logged |-> ENGINE_EXCEPTION]]
    /\ dl' = [dl EXCEPT ![r] = OnEngineException(ENGINE_EXCEPTION)]
    /\ pc' = [pc EXCEPT ![r] = AfterDownload(dl'[r])]
    /\ loop' = 0
    /\ UNCHANGED <<token, main, concurrent_updates, workspace, text, guided,
                   progress,
                   probe, up, post, calls>>

\* extract_info returns the metadata; ydl.download([url]) is called.
DownloadBegin(r) ==
    /\ main.pc = "polling"
    /\ pc[r] = "probing"
    /\ loop = r
    /\ \E info \in Talks : probe' = [probe EXCEPT ![r] = info]
    /\ calls' = Count(r, "ydl_download")
    /\ pc' = [pc EXCEPT ![r] = "in_download"]
    /\ UNCHANGED <<token, main, engine, concurrent_updates, loop, workspace,
                   text, guided, progress,
                   dl, up, post>>

\* ydl.download raises: download_ted_talk returns its failure.
DownloadRaises(r) ==
    /\ main.pc = "polling"
    /\ pc[r] = "in_download"
    /\ loop = r
    /\ engine' = [engine EXCEPT ![r] = [outcome |-> "download_raised",
                                        exc |-> ENGINE_EXCEPTION,
                                        logged |-> ENGINE_EXCEPTION]]
    /\ dl' = [dl EXCEPT ![r] = OnEngineException(ENGINE_EXCEPTION)]
    /\ pc' = [pc EXCEPT ![r] = AfterDownload(dl'[r])]
    /\ loop' = 0
    /\ UNCHANGED <<token, main, concurrent_updates, workspace, text, guided,
                   progress,
                   probe, up, post, calls>>

\* ydl.download returns, having written <title>.<ext>; the workspace is
\* scanned for a name ending in '.mp4' and download_ted_talk returns.
DownloadEnd(r) ==
    /\ main.pc = "polling"
    /\ pc[r] = "in_download"
    /\ loop = r
    /\ \E e \in Extensions, s \in Sizes :
          LET f == [name |-> probe[r].title \o <<".">> \o e, owner |-> r, size |-> s]
              files == WriteFile(workspace, f)
          IN  /\ workspace' = files
              /\ engine' = [engine EXCEPT ![r] =
                               [outcome |-> IF e = <<"m","p","4">>
                                            THEN "wrote_mp4" ELSE "wrote_other",
                                exc |-> "", logged |-> ""]]
              /\ IF LocateCandidates(files) = {}
                 THEN dl' = [dl EXCEPT ![r] = DownloadFailure(ERR_LOCATE)]
                 ELSE \E downloaded_file \in LocateCandidates(files) :
                         dl' = [dl EXCEPT ![r] =
                                   DownloadSuccess(downloaded_file, probe[r].title)]
    /\ pc' = [pc EXCEPT ![r] = AfterDownload(dl'[r])]
    /\ loop' = 0
    /\ UNCHANGED <<token, main, concurrent_updates, text, guided, progress,
                   probe, up, post, calls>>

\* ydl.download returns, having written <title>.<ext>, and os.listdir or
\* os.path.getsize raises: download_ted_talk returns its failure.
LocateRaises(r) ==
    /\ main.pc = "polling"
    /\ pc[r] = "in_download"
    /\ loop = r
    /\ \E e \in Extensions, s \in Sizes :
          workspace' = WriteFile(workspace,
                          [name |-> probe[r].title \o <<".">> \o e, owner |-> r, size |-> s])
    /\ engine' = [engine EXCEPT ![r] = [outcome |-> "locate_raised",
                                        exc |-> ENGINE_EXCEPTION,
                                        logged |-> ENGINE_EXCEPTION]]
    /\ dl' = [dl EXCEPT ![r] = OnEngineException(ENGINE_EXCEPTION)]
    /\ pc' = [pc EXCEPT ![r] = AfterDownload(dl'[r])]
    /\ loop' = 0
    /\ UNCHANGED <<token, main, concurrent_updates, text, guided, progress,
                   probe, up, post, calls>>


\* os.remove(file_path), the last statement of the try: it raises when the
\* file is not there, and otherwise the handler returns in state done.
RemoveAndReturn(r, done) ==
    IF FileNamed(dl[r].file_path) # {}
    THEN /\ workspace' = workspace \ FileNamed(dl[r].file_path)
         /\ calls' = Count(r, "os_remove")
         /\ pc' = [pc EXCEPT ![r] = done]
    ELSE /\ pc' = [pc EXCEPT ![r] = "handler"]
         /\ UNCHANGED <<workspace, calls>>

\* edit_text("Error: " + download_result['error']) completes; return.
EditDownloadError(r) ==
    /\ main.pc = "polling"
    /\ pc[r] = "edit_dl_error"
    /\ loop = 0
    /\ \E ok \in BOOLEAN :
          IF ok
          THEN /\ progress' = [progress EXCEPT ![r] = dl[r].error]
               /\ pc' = [pc EXCEPT ![r] = "Errored"]
          ELSE /\ pc' = [pc EXCEPT ![r] = "handler"]
               /\ UNCHANGED progress
    /\ UNCHANGED <<token, main, engine, concurrent_updates, loop, workspace,
                   text, guided,
                   probe, dl, up, post, calls>>

\* edit_text("Uploading video to Telegram...") completes; the file is opened
\* and reply_video is issued.
EditUploading(r) ==
    /\ main.pc = "polling"
    /\ pc[r] = "edit_uploading"
    /\ loop = 0
    /\ \E ok \in BOOLEAN :
          IF ok
          THEN /\ progress' = [progress EXCEPT ![r] = MSG_UPLOADING]
               /\ pc' = [pc EXCEPT ![r] = IF FileNamed(dl[r].file_path) # {}
                                          THEN "reply_video" ELSE "handler"]
          ELSE /\ pc' = [pc EXCEPT ![r] = "handler"]
               /\ UNCHANGED progress
    /\ UNCHANGED <<token, main, engine, concurrent_updates, loop, workspace,
                   text, guided,
                   probe, dl, up, post, calls>>

\* reply_video completes; processing_msg.delete() is issued.
ReplyVideo(r) ==
    /\ main.pc = "polling"
    /\ pc[r] = "reply_video"
    /\ loop = 0
    /\ \E ok \in BOOLEAN :
          IF ok
          THEN /\ calls' = Count(r, "reply_video")
               /\ pc' = [pc EXCEPT ![r] = "delete_progress"]
          ELSE /\ pc' = [pc EXCEPT ![r] = "handler"]
               /\ UNCHANGED calls
    /\ UNCHANGED <<token, main, engine, concurrent_updates, loop, workspace,
                   text, guided, progress,
                   probe, dl, up, post>>

\* processing_msg.delete() completes; the file is removed.
DeleteProgress(r) ==
    /\ main.pc = "polling"
    /\ pc[r] = "delete_progress"
    /\ loop = 0
    /\ \E ok \in BOOLEAN :
          IF ok
          THEN /\ progress' = [progress EXCEPT ![r] = MSG_DELETED]
               /\ RemoveAndReturn(r, "Done")
          ELSE /\ pc' = [pc EXCEPT ![r] = "handler"]
               /\ UNCHANGED <<progress, workspace, calls>>
    /\ UNCHANGED <<token, main, engine, concurrent_updates, loop, text,
                   guided, probe, dl, up, post>>

\* edit_text("File is too large...") completes; upload_to_0x0st is entered,
\* synchronously.
EditTooLarge(r) ==
    /\ main.pc = "polling"
    /\ pc[r] = "edit_too_large"
    /\ loop = 0
    /\ \E ok \in BOOLEAN :
          IF ok
          THEN /\ progress' = [progress EXCEPT ![r] = MSG_TOO_LARGE]
               /\ calls' = Count(r, "upload_to_0x0st")
               /\ loop' = r
               /\ pc' = [pc EXCEPT ![r] = "in_upload"]
          ELSE /\ pc' = [pc EXCEPT ![r] = "handler"]
               /\ UNCHANGED <<progress, calls, loop>>
    /\ UNCHANGED <<token, main, engine, concurrent_updates, workspace, text,
                   guided, probe, dl, up, post>>

\* upload_to_0x0st returns: open() failed, or requests.post did something.
UploadEnd(r) ==
    /\ main.pc = "polling"
    /\ pc[r] = "in_upload"
    /\ loop = r
    /\ LET file_exists == FileNamed(dl[r].file_path) # {}
       IN  \E p \in (IF file_exists THEN PostOutcomes ELSE {NoPost}) :
              /\ post' = [post EXCEPT ![r] = p]
              /\ up' = [up EXCEPT ![r] = upload_to_0x0st(file_exists, p)]
    /\ pc' = [pc EXCEPT ![r] = IF up'[r].raised THEN "handler" ELSE "edit_result"]
    /\ loop' = 0
    /\ UNCHANGED <<token, main, engine, concurrent_updates, workspace, text,
                   guided, progress,
                   probe, dl, calls>>

\* edit_text(the link, or "Error: " + upload_result['error']) completes; the
\* file is removed.
EditResult(r) ==
    /\ main.pc = "polling"
    /\ pc[r] = "edit_result"
    /\ loop = 0
    /\ \E ok \in BOOLEAN :
          IF ok
          THEN /\ progress' = [progress EXCEPT ![r] =
                                  IF up[r].success THEN MSG_LINK ELSE up[r].error]
               /\ RemoveAndReturn(r, IF up[r].success THEN "Done" ELSE "Errored")
          ELSE /\ pc' = [pc EXCEPT ![r] = "handler"]
               /\ UNCHANGED <<progress, workspace, calls>>
    /\ UNCHANGED <<token, main, engine, concurrent_updates, loop, text,
                   guided, probe, dl, up, post>>

\* The except clause: edit_text("An unexpected error occurred.") completes.
\* A deleted message cannot be edited.
Handler(r) ==
    /\ main.pc = "polling"
    /\ pc[r] = "handler"
    /\ loop = 0
    /\ \E ok \in BOOLEAN :
          IF ok /\ progress[r] # MSG_DELETED
          THEN /\ progress' = [progress EXCEPT ![r] = MSG_GENERIC]
               /\ pc' = [pc EXCEPT ![r] = "Errored"]
          ELSE /\ pc' = [pc EXCEPT ![r] = "Escaped"]
               /\ UNCHANGED progress
    /\ UNCHANGED <<token, main, engine, concurrent_updates, loop, workspace,
                   text, guided,
                   probe, dl, up, post, calls>>

\* One step of the invocation of handle_message for request r.
Step(r) ==
        \/ Receive(r)
        \/ ReplyGuidance(r)
        \/ ReplyProcessing(r)
        \/ ProbeRaises(r)
        \/ DownloadBegin(r)
        \/ DownloadRaises(r)
        \/ DownloadEnd(r)
        \/ LocateRaises(r)
        \/ EditDownloadError(r)
        \/ EditUploading(r)
        \/ ReplyVideo(r)
        \/ DeleteProgress(r)
        \/ EditTooLarge(r)
        \/ UploadEnd(r)
        \/ EditResult(r)
        \/ Handler(r)

Next == \E r \in Requests : Step(r)

Spec == Init /\ [][Next]_vars

SpecSequential == InitSequential /\ [][Next]_vars


(***************************************************************************)
(* main(): from the start of the process to its end.                       *)
(***************************************************************************)
\* The token is missing: log the diagnostic and return.
MainFatal ==
    /\ main.pc = "start"
    /\ TokenMissing(token)
    /\ main' = [main EXCEPT !.fatal_logged = TRUE, !.pc = "exited"]
    /\ UNCHANGED <<reqvars, workspace, token>>

\* bot = TEDTalkBot(): __init__ creates the temporary directory.
MainConstruct ==
    /\ main.pc = "start"
    /\ ~TokenMissing(token)
    /\ main' = [main EXCEPT !.temp_dir = TRUE, !.mkdtemp = @ + 1, !.pc = "build"]
    /\ UNCHANGED <<reqvars, workspace, token>>

\* Application.builder().token(BOT_TOKEN).build() returns, or raises (the
\* library rejects the token): this statement is outside the try.
MainBuild ==
    /\ main.pc = "build"
    /\ \E ok \in BOOLEAN :
          main' = IF ok THEN [main EXCEPT !.pc = "register"]
                        ELSE [main EXCEPT !.pc = "exited", !.raised = TRUE]
    /\ UNCHANGED <<reqvars, workspace, token>>

\* The three add_handler calls; run_polling is entered.
MainRegister ==
    /\ main.pc = "register"
    /\ main' = [main EXCEPT !.handlers = Handlers, !.polled = TRUE, !.pc = "polling"]
    /\ UNCHANGED <<reqvars, workspace, token>>

\* The ways run_polling is left: it returns (a stop signal), or an exception
\* or a KeyboardInterrupt comes out of it.
Endings == {"return", "exception", "interrupt"}

\* cleanup() called after a try whose except clause names Exception alone: a
\* KeyboardInterrupt leaves main at once.
AfterPolling_ExceptOnly(how) == IF how = "interrupt" THEN "exited" ELSE "finally"

\* try / except (Exception, KeyboardInterrupt) / finally: however
\* run_polling is left, the finally clause is next.
AfterPolling(how) == "finally"

\* run_polling is left; the except clause logs what was raised.  No handler
\* runs after that.
PollingEnds ==
    /\ main.pc = "polling"
    /\ \E how \in Endings :
          main' = [main EXCEPT !.ended = how, !.pc = AfterPolling(how),
                               !.raised = (AfterPolling(how) # "finally")]
    /\ UNCHANGED <<reqvars, workspace, token>>

\* finally: bot.cleanup().  shutil.rmtree removes the directory and what is
\* in it, or raises, which the bare except swallows; main returns.
Cleanup ==
    /\ main.pc = "finally"
    /\ \E ok \in BOOLEAN :
          IF ok
          THEN /\ workspace' = {}
               /\ main' = [main EXCEPT !.temp_dir = FALSE, !.cleanup = @ + 1,
                                       !.pc = "exited"]
          ELSE /\ main' = [main EXCEPT !.rmtree_failed = TRUE, !.cleanup = @ + 1,
                                       !.pc = "exited"]
               /\ UNCHANGED workspace
    /\ UNCHANGED <<reqvars, token>>

MainStep ==
    \/ MainFatal
    \/ MainConstruct
    \/ MainBuild
    \/ MainRegister
    \/ PollingEnds
    \/ Cleanup

\* The process from its start; updates are handled while run_polling runs,
\* one at a time as the Application is built.
InitMain ==
    /\ concurrent_updates = FALSE
    /\ loop = 0
    /\ workspace = {}
    /\ pc = [r \in Requests |-> "idle"]
    /\ text = [r \in Requests |-> <<>>]
    /\ guided = [r \in Requests |-> 0]
    /\ progress = [r \in Requests |-> NO_MSG]
    /\ probe = [r \in Requests |-> NoProbe]
    /\ dl = [r \in Requests |-> NoResult]
    /\ up = [r \in Requests |-> NoUpload]
    /\ post = [r \in Requests |-> NoPost]
    /\ calls = [r \in Requests |-> NoCalls]
    /\ engine = [r \in Requests |-> NoEngine]
    /\ token \in Tokens
    /\ main = MainStart

NextMain ==
    \/ MainStep
    \/ \E r \in Requests : Step(r)

SpecMain == InitMain /\ [][NextMain]_vars


(***************************************************************************)
(* What the specification says a URL in scope is (section 4.1): the text   *)
(* begins with an HTTP(S) scheme, its host is the source domain and its    *)
(* path holds the talk segment.  Host and path are parsed out of the text. *)
(***************************************************************************)
SchemeLen(t) ==
    IF StartsWith(t, <<"h","t","t","p",":","/","/">>) THEN 7
    ELSE IF StartsWith(t, <<"h","t","t","p","s",":","/","/">>) THEN 8
    ELSE 0

AfterScheme(t) == SubSeq(t, SchemeLen(t) + 1, Len(t))

HostLen(t) ==
    LET rest == AfterScheme(t)
        stops == {i \in 1..Len(rest) : rest[i] \in {"/", "?", "#"}}
    IN  IF stops = {} THEN Len(rest)
        ELSE (CHOOSE i \in stops : \A j \in stops : i <= j) - 1

HostOf(t) == SubSeq(AfterScheme(t), 1, HostLen(t))

PathOf(t) == SubSeq(AfterScheme(t), HostLen(t) + 1, Len(AfterScheme(t)))

InScopeTalkUrl(t) ==
    /\ SchemeLen(t) > 0
    /\ Lower(HostOf(t)) \in ted_domains
    /\ Contains(Lower(PathOf(t)), TALKS)

\* The domain and talk-path pattern occurring anywhere in the text.
HoldsTalkPattern(t) ==
    /\ Contains(Lower(t), <<"t","e","d",".","c","o","m">>)
    /\ Contains(Lower(t), <<"/","t","a","l","k","s","/">>)

\* The texts handle_message can hold in message_text.
ReceivedTexts == {Strip(raw) : raw \in MessageTexts}

\* Those that do not start with http or do not hold the pattern.
TextsToReject ==
    {t \in ReceivedTexts : ~StartsWith(t, <<"h","t","t","p">>) \/ ~HoldsTalkPattern(t)}

\* Those that are talk URLs of the source domain.
TextsInScope == {t \in ReceivedTexts : InScopeTalkUrl(t)}

\* Those the gate of handle_message lets through.
TextsAccepted == {t \in ReceivedTexts : GateAccepts(t)}

\* The response bodies that, trimmed, start with http.
LinkBodies == {b \in Bodies : StartsWith(Strip(b), <<"h","t","t","p">>)}

OwnedFiles(r) == {f \in workspace : f.owner = r}

(***************************************************************************)
(* The claims.                                                             *)
(***************************************************************************)

\* C1: once a request whose download returned a file is in a terminal
\* state, no file that its download produced remains in the temp workspace,
\* on every exit path (delivery done, upload failure, exception).
C1_CleanupOnEveryExit ==
    \A r \in Requests :
        (pc[r] \in Terminal /\ dl[r].success) => OwnedFiles(r) = {}

\* C2: the file download_ted_talk returns to a request (and handle_message
\* then sends and removes) is the file that request's own download wrote.
C2_WorkspaceIsolation ==
    \A r \in Requests : dl[r].success => dl[r].owner = r

\* C3: no exception raised once the request is downloading or delivering
\* (download_ted_talk was entered) escapes handle_message.
C3_FaultContainment ==
    \A r \in Requests :
        calls[r].download_ted_talk > 0 => pc[r] # "Escaped"

\* C4: when the metadata probe reports a duration above 1800 seconds, the
\* full download is never attempted, download_ted_talk returns a Failure and
\* no file of the request appears in the workspace.
C4_DurationCeiling ==
    \A r \in Requests :
        probe[r].duration > 1800 =>
            /\ calls[r].ydl_download = 0
            /\ ~dl[r].success
            /\ OwnedFiles(r) = {}

C6_InlineRouting ==
    \A r \in Requests :
        (dl[r].success /\ dl[r].file_size < 49 * 1024 * 1024) =>
            /\ calls[r].upload_to_0x0st = 0
            /\ ~up[r].returned /\ ~up[r].raised /\ ~post[r].made
            /\ pc[r] \notin {"edit_too_large", "in_upload", "edit_result"}
            /\ calls[r].reply_video <= 1
            /\ (pc[r] = "Done" => calls[r].reply_video = 1 /\ progress[r] = MSG_DELETED)

\* C6 witness: a file one byte under the limit was sent inline, request done.
C6_Witness ==
    \E r \in Requests :
        /\ dl[r].success
        /\ dl[r].file_size = 49 * 1024 * 1024 - 1
        /\ pc[r] = "Done"
        /\ calls[r].reply_video = 1

\* C7: after a successful download measuring 49 MiB or more, nothing is sent
\* inline, the upload adapter is invoked once, and once it has returned
\* (Success or Failure) and the request has ended, the request has removed the
\* local file.
C7_LinkRouting ==
    \A r \in Requests :
        (dl[r].success /\ dl[r].file_size >= 49 * 1024 * 1024) =>
            /\ calls[r].reply_video = 0
            /\ calls[r].upload_to_0x0st <= 1
            /\ (pc[r] \in Terminal /\ up[r].returned) =>
                   /\ calls[r].upload_to_0x0st = 1
                   /\ calls[r].os_remove = 1

C9_ValidatorCorrect ==
    \A r \in Requests :
        pc[r] # "idle" => (text[r] \in TextsAccepted <=> text[r] \in TextsInScope)

DownloadEnded(r) ==
    /\ calls[r].download_ted_talk > 0
    /\ pc[r] \notin {"probing", "in_download"}

\* C11: whatever the engine raises while probing, downloading or locating the
\* file is caught inside download_ted_talk and comes back as the fixed failure
\* 'An unexpected error occurred during download.'; no exception leaves
\* download_ted_talk; and a download that leaves no '.mp4' file to find comes
\* back as the failure 'Failed to locate the final downloaded video file.'.
C11_DownloadErrorPolicy ==
    \A r \in Requests :
        DownloadEnded(r) =>
            /\ dl[r].returned
            /\ ~dl[r].raised
            /\ engine[r].outcome \in {"probe_raised", "download_raised", "locate_raised"}
                   => dl[r] = DownloadFailure(ERR_DOWNLOAD)
            /\ engine[r].outcome = "wrote_mp4" => dl[r].success
            /\ (engine[r].outcome = "wrote_other" /\ ~dl[r].success)
                   => dl[r] = DownloadFailure(ERR_LOCATE)
            /\ ~dl[r].success => dl[r].error \in {ERR_DOWNLOAD, ERR_LOCATE}

\* One request whose download raised and one whose download left no '.mp4'
\* file, both over.
C11_Witness ==
    \E r, q \in Requests :
        /\ engine[r].outcome = "download_raised"
        /\ dl[r] = DownloadFailure(ERR_DOWNLOAD)
        /\ pc[r] = "Errored"
        /\ engine[q].outcome = "wrote_other"
        /\ dl[q] = DownloadFailure(ERR_LOCATE)
        /\ pc[q] = "Errored"

\* The texts of a progress message that say the request is still under way.
IntermediateTexts == {MSG_PROCESSING, MSG_UPLOADING, MSG_TOO_LARGE}

\* What the progress message of an ended request r has to show: nothing (it
\* is deleted) after reply_video returned, the link text after the file host
\* returned a link, and the failure reason, or the generic error of the except
\* clause, otherwise.
FinalTexts(r) ==
    IF calls[r].reply_video = 1 THEN {MSG_DELETED}
    ELSE IF up[r].success THEN {MSG_LINK}
    ELSE {MSG_GENERIC} \cup (IF dl[r].returned /\ ~dl[r].success THEN {dl[r].error} ELSE {})
                       \cup (IF up[r].returned /\ ~up[r].success THEN {up[r].error} ELSE {})

\* C12: a request that entered download_ted_talk has a progress message, and
\* when its handler has ended the message is finalized: deleted after the
\* video was sent inline, showing the link after the file host returned one,
\* showing the failure reason after a failure; it never still shows
\* 'Processing your request...', 'Download complete! Uploading video to
\* Telegram...' or 'Download complete! File is too large for Telegram, ...'.
C12_ProgressLifecycle ==
    \A r \in Requests :
        calls[r].download_ted_talk > 0 =>
            /\ progress[r] # NO_MSG
            /\ pc[r] \in Terminal =>
                  /\ progress[r] \notin IntermediateTexts
                  /\ progress[r] \in FinalTexts(r)

\* The event loop runs every handler that can go on, and every call to the
\* engine, the file host and the transport returns or raises in the end.
Fairness == \A r \in Requests : WF_vars(Step(r))

SpecFair == Init /\ [][Next]_vars /\ Fairness

\* C13: under fairness, every request that has entered download_ted_talk ends
\* in Done or Errored, also after an unexpected failure.
C13_RunToCompletion ==
    \A r \in Requests : (pc[r] = "probing") ~> (pc[r] \in {"Done", "Errored"})

\* C14: when TELEGRAM_TOKEN is not in the environment, main logs the
\* diagnostic and returns: no temporary directory is ever created, no
\* handler is registered, run_polling is never entered, and no update is
\* handled.
C14_MissingCredentialFatal ==
    token = NoToken =>
        /\ main.pc \in {"start", "exited"}
        /\ main.pc = "exited" => (main.fatal_logged /\ ~main.raised)
        /\ main.mkdtemp = 0
        /\ ~main.temp_dir
        /\ workspace = {}
        /\ main.handlers = {}
        /\ ~main.polled
        /\ \A r \in Requests : pc[r] = "idle"

\* main has returned without a token.
C14_Witness ==
    /\ token = NoToken
    /\ main.pc = "exited"
    /\ main.fatal_logged

\* download_ted_talk returned a failure to request r.
DownloadFailed(r) == dl[r].returned /\ ~dl[r].success

\* What a step of request r may do, given what was done before it.
StageOrder(r) ==
    \* the progress message exists when download_ted_talk is called
    /\ calls'[r].download_ted_talk > calls[r].download_ted_talk
           => progress'[r] = MSG_PROCESSING
    \* the 'Download complete!' edits come after a successful download and
    \* before any delivery
    /\ (progress'[r] # progress[r] /\ progress'[r] \in {MSG_UPLOADING, MSG_TOO_LARGE})
           => /\ dl[r].success
              /\ progress[r] = MSG_PROCESSING
              /\ calls[r].reply_video = 0
              /\ calls[r].upload_to_0x0st = 0
              /\ calls[r].os_remove = 0
    \* the inline send comes after its edit and before the removal
    /\ calls'[r].reply_video > calls[r].reply_video
           => /\ dl[r].success
              /\ progress[r] = MSG_UPLOADING
              /\ calls[r].os_remove = 0
    \* the upload comes after its edit and before the removal
    /\ calls'[r].upload_to_0x0st > calls[r].upload_to_0x0st
           => /\ dl[r].success
              /\ progress'[r] = MSG_TOO_LARGE
              /\ calls[r].os_remove = 0
    \* the file is removed after the delivery
    /\ calls'[r].os_remove > calls[r].os_remove
           => /\ dl[r].success
              /\ calls[r].reply_video = 1 \/ up[r].returned

C16_NoErrorAfterDelivery ==
    \A r \in Requests :
        calls[r].reply_video = 1 =>
            /\ progress[r] # MSG_GENERIC
            /\ pc[r] # "Errored"
            /\ pc[r] \in Terminal => pc[r] = "Done"

\* The constant error texts of the program: the guidance of the validation
\* gate, the failure reasons of the two adapters, and the generic error.
FixedErrorTexts ==
    {MSG_GUIDANCE, MSG_GENERIC, ERR_DOWNLOAD, ERR_LOCATE, ERR_HOST, ERR_LINK,
     ERR_UPLOAD}

\* The texts of a progress message that are no error texts.
ProgressTexts ==
    {NO_MSG, MSG_DELETED, MSG_PROCESSING, MSG_UPLOADING, MSG_TOO_LARGE, MSG_LINK}

\* C17: every error text handle_message shows the user is one of the constant
\* texts; the text of an exception that was raised is written to the log and
\* is never part of what the user is shown.
C17_ErrorTextConfinement ==
    \A r \in Requests :
        /\ progress[r] \in ProgressTexts \cup FixedErrorTexts
        /\ DownloadFailed(r) => dl[r].error \in FixedErrorTexts
        /\ (up[r].returned /\ ~up[r].success) => up[r].error \in FixedErrorTexts
        /\ engine[r].exc # "" =>
              /\ engine[r].logged = engine[r].exc
              /\ progress[r] # engine[r].exc
              /\ dl[r].error # engine[r].exc

\* The engine raised, the exception was logged, and the user reads the fixed
\* failure reason of the download.
C17_Witness ==
    \E r \in Requests :
        /\ engine[r].exc = ENGINE_EXCEPTION
        /\ engine[r].logged = ENGINE_EXCEPTION
        /\ progress[r] = ERR_DOWNLOAD
        /\ pc[r] = "Errored"

\* main has returned after run_polling was entered.
ShutDown == main.pc = "exited" /\ main.polled

=============================================================================
